---- MODULE Spec2Model ----
(***************************************************************************)
(* A model of the whois client library: zone resolution (whois.go), the    *)
(* Cenpac resolver, client construction, the dial strategy and the fetch   *)
(* dispatcher (client.go).                                                 *)
(*                                                                         *)
(* Program strings are sequences of one-character strings, so that         *)
(* splitting, joining and escaping are computed character by character.    *)
(***************************************************************************)
EXTENDS Integers, Sequences, FiniteSets, TLC

VARIABLES
    zones,      \* the zone table: suffix -> whois server host
    servers,    \* the service registry: host -> resolver
    rpc,        \* Resolve: "idle" before the call, "done" after it
    req,        \* the *Request Resolve built
    err,        \* the error Resolve returned
    srvErr,     \* the error the invoked resolver returned
    used,       \* the resolver Resolve invoked, "none" if none
    outcome,    \* "returned" or "panic"
    cpc,        \* the client: "none" before NewClientWithProxy, "ready" after it
    proxyArg,   \* the proxy string the client was constructed with
    client,     \* the *Client
    fpc,        \* Fetch: "idle" before the call, "done" after it
    freq,       \* the *Request passed to Fetch
    peer,       \* what the network and the peer do during the call
    fpath,      \* the transport Fetch chose: "whois" or "http"
    dialed,     \* the calls of Client.Dial, in order
    conn,       \* the dial strategy that produced the connection, "none" if none
    hreq,       \* the *http.Request of the HTTP path
    peerRead,   \* the bytes read from the peer's stream
    fres,       \* the *Response Fetch returned
    ferr,       \* the error Fetch returned
    foutcome,   \* "returned" or "panic"
    now,        \* the clock
    tpc,        \* the timed Fetch: idle, connecting, writing, reading, done
    timeout,    \* the dialer's timeout
    tpeer,      \* the peer of the timed Fetch
    t0,         \* when the timed Fetch started
    deadline,   \* the deadline Dial computed
    connDeadline, \* the deadline set on the connection, -1 if none
    tconn,      \* when the connection was established, -1 before that
    tend,       \* when the timed Fetch returned
    tres        \* what the timed Fetch returned

rvars == <<zones, servers, rpc, req, err, srvErr, used, outcome>>
fvars == <<cpc, proxyArg, client, fpc, freq, peer, fpath, dialed, conn, hreq, peerRead,
           fres, ferr, foutcome>>
tvars == <<now, tpc, timeout, tpeer, t0, deadline, connDeadline, tconn, tend, tres>>
vars == <<rvars, fvars, tvars>>

----------------------------------------------------------------------------
(* Bounds of the model. *)

MaxQueryLen == 5

----------------------------------------------------------------------------
(* Strings. *)

EmptyStr == <<>>
Dot == "."
CRLF == <<"\r", "\n">>

RECURSIVE BoundedSeqs(_, _)
BoundedSeqs(S, n) ==
    IF n = 0 THEN {<<>>}
    ELSE LET shorter == BoundedSeqs(S, n - 1)
         IN shorter \cup {Append(s, c) : s \in shorter, c \in S}

HasChar(s, c) == \E i \in 1..Len(s) : s[i] = c

FirstIndex(s, c) == CHOOSE i \in 1..Len(s) : s[i] = c /\ \A j \in 1..(i - 1) : s[j] # c

HasPrefix(s, p) == Len(s) >= Len(p) /\ SubSeq(s, 1, Len(p)) = p

\* strings.Split(s, sep) for a one-character separator
RECURSIVE Split(_, _)
Split(s, sep) ==
    IF ~HasChar(s, sep) THEN <<s>>
    ELSE LET k == FirstIndex(s, sep)
         IN <<SubSeq(s, 1, k - 1)>> \o Split(SubSeq(s, k + 1, Len(s)), sep)

\* strings.SplitN(s, sep, n) for n >= 1: at most n pieces, the last one unsplit
RECURSIVE SplitN(_, _, _)
SplitN(s, sep, n) ==
    IF n <= 1 \/ ~HasChar(s, sep) THEN <<s>>
    ELSE LET k == FirstIndex(s, sep)
         IN <<SubSeq(s, 1, k - 1)>> \o SplitN(SubSeq(s, k + 1, Len(s)), sep, n - 1)

\* strings.Join(elems, sep)
RECURSIVE Join(_, _)
Join(elems, sep) ==
    IF Len(elems) = 0 THEN EmptyStr
    ELSE IF Len(elems) = 1 THEN elems[1]
    ELSE elems[1] \o <<sep>> \o Join(Tail(elems), sep)

\* net/url: the characters QueryEscape leaves alone
Unreserved ==
    {"a", "b", "c", "d", "e", "f", "g", "h", "i", "j", "k", "l", "m",
     "n", "o", "p", "q", "r", "s", "t", "u", "v", "w", "x", "y", "z",
     "0", "1", "2", "3", "4", "5", "6", "7", "8", "9", "-", "_", ".", "~"}

\* net/url: the two hex digits of an escaped character
HexOf(c) ==
    CASE c = "&" -> <<"2", "6">>
      [] c = "=" -> <<"3", "D">>
      [] c = "/" -> <<"2", "F">>
      [] c = ":" -> <<"3", "A">>
      [] c = "?" -> <<"3", "F">>
      [] c = "%" -> <<"2", "5">>
      [] c = "+" -> <<"2", "B">>
      [] c = "\r" -> <<"0", "D">>
      [] c = "\n" -> <<"0", "A">>

\* url.QueryEscape
RECURSIVE QueryEscape(_)
QueryEscape(s) ==
    IF Len(s) = 0 THEN EmptyStr
    ELSE LET c == Head(s)
             e == IF c \in Unreserved THEN <<c>>
                  ELSE IF c = " " THEN <<"+">>
                  ELSE <<"%">> \o HexOf(c)
         IN e \o QueryEscape(Tail(s))

\* url.Values.Encode for values given as <<key, value>> pairs in key order
RECURSIVE ValuesEncode(_)
ValuesEncode(pairs) ==
    IF Len(pairs) = 0 THEN EmptyStr
    ELSE LET p == QueryEscape(pairs[1][1]) \o <<"=">> \o QueryEscape(pairs[1][2])
         IN IF Len(pairs) = 1 THEN p
            ELSE p \o <<"&">> \o ValuesEncode(Tail(pairs))

----------------------------------------------------------------------------
(* Hosts, resolvers and tables. *)

HostVerisign == <<"w", "h", "o", "i", "s", ".", "v", "e", "r", "i", "s", "i", "g", "n", "-", "g", "r", "s", ".", "c", "o", "m">>
HostCenpac == <<"c", "e", "n", "p", "a", "c", ".", "n", "e", "t", ".", "n", "r">>
HostOther == <<"w", "h", "o", "i", "s", ".", "o", "t", "h", "e", "r", ".", "e", "x", "a", "m", "p", "l", "e">>

CenpacURL == <<"h", "t", "t", "p", ":", "/", "/", "c", "e", "n", "p", "a", "c", ".", "n", "e", "t", ".", "n", "r", "/", "d", "n", "s", "/", "w", "h", "o", "i", "s", ".", "h", "t", "m", "l", "?">>

NilError == [nil |-> TRUE, msg |-> EmptyStr]
NewError(m) == [nil |-> FALSE, msg |-> m]

\* NewRequest(q)
NewRequest(q) == [Query |-> q, Host |-> EmptyStr, Body |-> EmptyStr, URL |-> EmptyStr]

\* the default resolver: the raw query line
DefaultResolve(r) ==
    [req |-> [r EXCEPT !.Body = r.Query \o CRLF], err |-> NilError, panic |-> FALSE]

CenpacSplitLimit3(q) == SplitN(q, Dot, 3)

\* Cenpac.Resolve: labels := strings.SplitN(req.Query, ".", 2)
CenpacLabels(q) == SplitN(q, Dot, 2)

\* Cenpac.Resolve; labels[1] of a one-element slice is an index out of range
CenpacResolve(r) ==
    LET labels == CenpacLabels(r.Query)
    IN IF Len(labels) < 2 THEN [req |-> r, err |-> NilError, panic |-> TRUE]
       ELSE [req |-> [r EXCEPT
                        !.URL = CenpacURL \o ValuesEncode(<<
                                    <<<<"s", "u", "b", "d", "o", "m", "a", "i", "n">>, labels[1]>>,
                                    <<<<"t", "l", "d">>, labels[2]>> >>),
                        !.Body = EmptyStr],
             err |-> NilError,
             panic |-> FALSE]

\* a registered resolver that returns a non-nil error and leaves the Request alone
FailingResolve(r) ==
    [req |-> r, err |-> NewError(<<"r", "e", "s", "o", "l", "v", "e", "r", " ", "f", "a", "i", "l", "e", "d">>), panic |-> FALSE]

\* srv.Resolve(req); calling through a nil server panics
ServerResolve(srv, r) ==
    CASE srv = "Default" -> DefaultResolve(r)
      [] srv = "Cenpac" -> CenpacResolve(r)
      [] srv = "Failing" -> FailingResolve(r)
      [] srv = "Nil" -> [req |-> r, err |-> NilError, panic |-> TRUE]

\* func init(): register(&Cenpac{}, "cenpac.net.nr")
InitServers == (HostCenpac :> "Cenpac")

\* a further resolver registered before any resolution
ExtraServers == (HostOther :> "Failing")

Registries == {InitServers, InitServers @@ ExtraServers}

\* the zone tables of the model: "com" is always served by Verisign, each of the
\* other suffixes is absent or maps to one of its hosts
ZoneChoices ==
    [suffix : {EmptyStr}, hosts : {{HostVerisign}}]
    \cup [suffix : {<<"c">>}, hosts : {{HostVerisign, HostCenpac, HostOther}}]
    \cup [suffix : {<<"b", ".", "c">>}, hosts : {{HostVerisign, HostCenpac, HostOther}}]
    \cup [suffix : {<<"n", "r">>}, hosts : {{HostCenpac}}]

ZoneKeys == {z.suffix : z \in ZoneChoices}

HostsOf(k) == (CHOOSE z \in ZoneChoices : z.suffix = k).hosts

ZoneTables ==
    UNION {{(<<"c", "o", "m">> :> HostVerisign) @@ t : t \in {f \in [K -> UNION {HostsOf(k) : k \in K}] :
                                    \A k \in K : f[k] \in HostsOf(k)}} : K \in SUBSET ZoneKeys}

QueryAlphabet == {"b", "c", Dot}

ExampleQueries ==
    {<<"e", "x", "a", "m", "p", "l", "e", ".", "c", "o", "m">>, <<"f", "o", "o", ".", "n", "e", "t", ".", "n", "r">>, <<"x", ".", "n", "o", "n", "e", "x", "i", "s", "t", "e", "n", "t">>, <<"a", ".", "b", ".", "c">>,
     <<"n", "r">>, <<"b", "&", "c", ".", "n", "r">>, <<"f", "o", "o", ".", "n", "r">>}

Queries == BoundedSeqs(QueryAlphabet, MaxQueryLen) \cup ExampleQueries

----------------------------------------------------------------------------
(* Resolve. *)

RECURSIVE ZoneScanLeastSpecific(_, _, _)
ZoneScanLeastSpecific(labels, i, table) ==
    IF i > Len(labels) THEN [Host |-> EmptyStr, ok |-> FALSE]
    ELSE LET key == Join(SubSeq(labels, Len(labels) + 1 - i, Len(labels)), Dot)
         IN IF key \in DOMAIN table THEN [Host |-> table[key], ok |-> TRUE]
            ELSE ZoneScanLeastSpecific(labels, i + 1, table)

\* for i := 0; i < len(labels) && !ok; i++ { req.Host, ok = zones[Join(labels[i:], ".")] }
\* (i counts from 1 here); a missed lookup assigns the zero value "" to req.Host
RECURSIVE ZoneScan(_, _, _)
ZoneScan(labels, i, table) ==
    IF i > Len(labels) THEN [Host |-> EmptyStr, ok |-> FALSE]
    ELSE LET key == Join(SubSeq(labels, i, Len(labels)), Dot)
         IN IF key \in DOMAIN table THEN [Host |-> table[key], ok |-> TRUE]
            ELSE ZoneScan(labels, i + 1, table)

ChooseServerNoFallback(host, registry) ==
    IF host \in DOMAIN registry THEN registry[host] ELSE "Nil"

\* srv, ok := servers[req.Host]; if !ok { srv = defaultServer }
ChooseServer(host, registry) ==
    IF host \in DOMAIN registry THEN registry[host] ELSE "Default"

NoEarlyReturn(found) == TRUE

\* if !ok { return req, errors.New(...) }: whether Resolve goes on to the resolver
GoesOn(found) == found

\* Resolve(q)
ResolveOp(q, table, registry) ==
    LET labels == Split(q, Dot)
        m == ZoneScan(labels, 1, table)
        r1 == [NewRequest(q) EXCEPT !.Host = m.Host]
    IN IF ~GoesOn(m.ok)
       THEN [req |-> r1, err |-> NewError(<<"N", "o", " ", "w", "h", "o", "i", "s", " ", "s", "e", "r", "v", "e", "r", " ", "f", "o", "u", "n", "d", " ", "f", "o", "r", " ">> \o q),
             srvErr |-> NilError, used |-> "none", outcome |-> "returned"]
       ELSE LET srv == ChooseServer(r1.Host, registry)
                a == ServerResolve(srv, r1)
            IN [req |-> a.req,
                err |-> NilError,       \* the resolver's error is dropped
                srvErr |-> a.err,
                used |-> srv,
                outcome |-> IF a.panic THEN "panic" ELSE "returned"]

NoResult ==
    [req |-> NewRequest(EmptyStr), err |-> NilError, srvErr |-> NilError,
     used |-> "none", outcome |-> "none"]

IdleResolve ==
    /\ rpc = "idle"
    /\ req = NoResult.req
    /\ err = NilError
    /\ srvErr = NilError
    /\ used = "none"
    /\ outcome = "none"

\* a caller calls Resolve(q)
Resolve ==
    /\ rpc = "idle"
    /\ \E q \in Queries :
         LET res == ResolveOp(q, zones, servers)
         IN /\ req' = res.req
            /\ err' = res.err
            /\ srvErr' = res.srvErr
            /\ used' = res.used
            /\ outcome' = res.outcome
    /\ rpc' = "done"
    /\ UNCHANGED <<zones, servers, fvars, tvars>>


----------------------------------------------------------------------------
(* net/url.Parse, as far as NewClientWithProxy and httpRequest depend on it. *)

LowerLetters == <<"a", "b", "c", "d", "e", "f", "g", "h", "i", "j", "k", "l", "m", "n", "o", "p", "q", "r", "s", "t", "u", "v", "w", "x", "y", "z">>
UpperLetters == <<"A", "B", "C", "D", "E", "F", "G", "H", "I", "J", "K", "L", "M", "N", "O", "P", "Q", "R", "S", "T", "U", "V", "W", "X", "Y", "Z">>
Letters == {LowerLetters[i] : i \in 1..Len(LowerLetters)}
           \cup {UpperLetters[i] : i \in 1..Len(UpperLetters)}
Digits == {"0", "1", "2", "3", "4", "5", "6", "7", "8", "9"}

LowerChar(c) ==
    IF \E i \in 1..Len(UpperLetters) : UpperLetters[i] = c
    THEN LowerLetters[CHOOSE i \in 1..Len(UpperLetters) : UpperLetters[i] = c]
    ELSE c

\* strings.ToLower
ToLower(s) == [i \in 1..Len(s) |-> LowerChar(s[i])]

ParseError == [err |-> TRUE, Scheme |-> EmptyStr, Host |-> EmptyStr]

\* url.getScheme: the scheme before the first ":", if what precedes it is a scheme
RECURSIVE GetScheme(_, _)
GetScheme(raw, i) ==
    IF i > Len(raw) THEN [err |-> FALSE, scheme |-> EmptyStr, rest |-> raw]
    ELSE LET c == raw[i]
         IN IF c \in Letters THEN GetScheme(raw, i + 1)
            ELSE IF c \in Digits \cup {"+", "-", "."}
                 THEN IF i = 1 THEN [err |-> FALSE, scheme |-> EmptyStr, rest |-> raw]
                      ELSE GetScheme(raw, i + 1)
            ELSE IF c = ":"
                 THEN IF i = 1 THEN [err |-> TRUE, scheme |-> EmptyStr, rest |-> EmptyStr]
                      ELSE [err |-> FALSE, scheme |-> SubSeq(raw, 1, i - 1),
                            rest |-> SubSeq(raw, i + 1, Len(raw))]
            ELSE [err |-> FALSE, scheme |-> EmptyStr, rest |-> raw]

\* the part of s before its first "/"
FirstSegment(s) == IF HasChar(s, "/") THEN SubSeq(s, 1, FirstIndex(s, "/") - 1) ELSE s

\* url.validOptionalPort on what follows the last ":" of the authority
ValidOptionalPort(auth) ==
    \/ ~HasChar(auth, ":")
    \/ LET k == CHOOSE i \in 1..Len(auth) :
                    auth[i] = ":" /\ \A j \in (i + 1)..Len(auth) : auth[j] # ":"
       IN \A j \in (k + 1)..Len(auth) : auth[j] \in Digits

\* url.Parse(raw): error, Scheme and Host
UrlParse(raw) ==
    LET g == GetScheme(raw, 1)
    IN IF g.err THEN ParseError
       ELSE LET scheme == ToLower(g.scheme)
                rest == g.rest
            IN IF ~HasPrefix(rest, <<"/">>)
               THEN IF scheme # EmptyStr
                    THEN [err |-> FALSE, Scheme |-> scheme, Host |-> EmptyStr]
                    ELSE IF HasChar(FirstSegment(rest), ":") THEN ParseError
                    ELSE [err |-> FALSE, Scheme |-> scheme, Host |-> EmptyStr]
               ELSE IF HasPrefix(rest, <<"/", "/">>)
                          /\ (scheme # EmptyStr \/ ~HasPrefix(rest, <<"/", "/", "/">>))
                    THEN LET auth == FirstSegment(SubSeq(rest, 3, Len(rest)))
                         IN IF ValidOptionalPort(auth)
                            THEN [err |-> FALSE, Scheme |-> scheme, Host |-> auth]
                            ELSE ParseError
               ELSE [err |-> FALSE, Scheme |-> scheme, Host |-> EmptyStr]

----------------------------------------------------------------------------
(* The client. *)

DefaultTimeout == 30

DefaultReadLimit == 2^20

NilDial == [kind |-> "nil", proxy |-> EmptyStr, timeout |-> 0]

DirectDial(t) == [kind |-> "direct", proxy |-> EmptyStr, timeout |-> t]

\* socks.DialSocksProxyTimeout(version, proxyHost, timeout)
SocksDial(version, host, t) == [kind |-> version, proxy |-> host, timeout |-> t]

\* NewClientWithProxy: the dialFunc it ends with; on a parse error the variable
\* keeps its zero value, nil
DialFuncOf(t, proxy) ==
    IF proxy # EmptyStr
    THEN LET u == UrlParse(proxy)
         IN IF u.err THEN NilDial
            ELSE IF ToLower(u.Scheme) = <<"s", "o", "c", "k", "s", "5">>
                 THEN SocksDial("socks5", u.Host, t)
                 ELSE SocksDial("socks4", u.Host, t)
    ELSE DirectDial(t)

\* NewClientWithProxy: the transport's Proxy function
ProxyFuncOf(proxy) ==
    IF proxy # EmptyStr /\ ~UrlParse(proxy).err
    THEN [nil |-> FALSE, url |-> proxy]
    ELSE [nil |-> TRUE, url |-> EmptyStr]

\* NewClientWithProxy(timeout, proxy)
NewClientOp(t, proxy) ==
    LET dialFunc == DialFuncOf(t, proxy)
    IN [dialFunc |-> dialFunc,
        httpClient |-> [Proxy |-> ProxyFuncOf(proxy),
                        TLSHandshakeTimeout |-> t,
                        ResponseHeaderTimeout |-> t,
                        Dial |-> dialFunc]]

NoClient == NewClientOp(0, EmptyStr)

Timeouts == {1, DefaultTimeout}

ProxyInputs ==
    {EmptyStr, <<"s", "o", "c", "k", "s", "5", ":", "/", "/", "h", ":", "1">>, <<"S", "O", "C", "K", "S", "5", ":", "/", "/", "h", ":", "1">>, <<"s", "o", "c", "k", "s", "4", ":", "/", "/", "h", ":", "1">>, <<"h", ":", "1">>,
     <<"1", "2", "7", ".", "0", ".", "0", ".", "1", ":", "1", "0", "8", "0">>, <<":", "/", "/", "h", ":", "1">>, <<"s", "o", "c", "k", "s", "5", ":", "/", "/", "h", ":", "x">>}

----------------------------------------------------------------------------
(* Fetch. *)

MaxStreamCaps == 2

Min(a, b) == IF a < b THEN a ELSE b

\* the lengths of the peer's stream, around the read limit
StreamLens ==
    {0, 1, DefaultReadLimit - 1, DefaultReadLimit + 1}
    \cup {k * DefaultReadLimit : k \in 1..MaxStreamCaps}

\* a stream delivers len bytes and then ends with EOF ("eof") or with a read
\* error ("err"); a stream that never ends ("more") always has more bytes
Streams ==
    [len : StreamLens, end : {"eof", "err"}] \cup [len : {0}, end : {"more"}]

\* the most bytes one Read of the connection returns
ReadSizes ==
    {DefaultReadLimit \div 4, 3 * (DefaultReadLimit \div 4), DefaultReadLimit,
     2 * DefaultReadLimit}

Peers == [dial : {"ok", "fail"}, write : {"ok", "fail"}, stream : Streams, size : ReadSizes]

NoPeer == [dial |-> "ok", write |-> "ok", stream |-> [len |-> 0, end |-> "eof"],
           size |-> DefaultReadLimit]

Unlimited(n, size) == size

\* io.LimitedReader.Read: if int64(len(p)) > l.N { p = p[0:l.N] }
Limited(n, size) == IF size > n THEN n ELSE size

\* ioutil.ReadAll(io.LimitReader(r, n)) on stream s from offset pos: the bytes
\* read and whether a read error ended it. The limited reader answers EOF once
\* n <= 0, without reading; otherwise it reads at most n bytes.
RECURSIVE ReadAllLimit(_, _, _, _)
ReadAllLimit(s, pos, n, size) ==
    IF n <= 0 THEN [n |-> pos, err |-> FALSE]
    ELSE LET left == IF s.end = "more" THEN size ELSE s.len - pos
             got == Min(Limited(n, size), left)
         IN IF left > 0 THEN ReadAllLimit(s, pos + got, n - got, size)
            ELSE [n |-> pos, err |-> s.end = "err"]

\* NewResponse(query, host)
NewResponse(query, host) == [Query |-> query, Host |-> host, Body |-> 0]

NoResponse == [Query |-> EmptyStr, Host |-> EmptyStr, Body |-> -1]

NoHttpRequest == [Method |-> "none", URL |-> EmptyStr, Referer |-> EmptyStr, Body |-> EmptyStr]

PathByBody(r) == IF r.Body # EmptyStr THEN "http" ELSE "whois"

\* Client.Fetch: if req.URL != "" { fetchHTTP } else { fetchWhois }
FetchPath(r) == IF r.URL # EmptyStr THEN "http" ELSE "whois"

Failed(path, dials, via, h, n, msg) ==
    [path |-> path, dialed |-> dials, conn |-> via, hreq |-> h, peerRead |-> n,
     res |-> NoResponse, err |-> NewError(msg), outcome |-> "returned"]

\* the body read of both paths: ioutil.ReadAll(io.LimitReader(..., DefaultReadLimit));
\* a read error discards what was read
ReadBody(path, dials, via, h, r, p) ==
    LET rd == ReadAllLimit(p.stream, 0, DefaultReadLimit, p.size)
    IN IF rd.err THEN Failed(path, dials, via, h, rd.n, <<"r", "e", "a", "d">>)
       ELSE [path |-> path, dialed |-> dials, conn |-> via, hreq |-> h, peerRead |-> rd.n,
             res |-> [NewResponse(r.Query, r.Host) EXCEPT !.Body = rd.n],
             err |-> NilError, outcome |-> "returned"]

\* Client.fetchWhois; Client.Dial calls c.dialFunc, and calling a nil func panics
FetchWhois(c, r, p) ==
    LET dials == <<[network |-> "tcp", address |-> r.Host \o <<":", "4", "3">>]>>
    IN IF c.dialFunc.kind = "nil"
       THEN [path |-> "whois", dialed |-> dials, conn |-> "none", hreq |-> NoHttpRequest,
             peerRead |-> 0, res |-> NoResponse, err |-> NilError, outcome |-> "panic"]
       ELSE IF p.dial = "fail"
            THEN Failed("whois", dials, "none", NoHttpRequest, 0, <<"d", "i", "a", "l">>)
       ELSE IF p.write = "fail"
            THEN Failed("whois", dials, c.dialFunc.kind, NoHttpRequest, 0, <<"w", "r", "i", "t", "e">>)
       ELSE ReadBody("whois", dials, c.dialFunc.kind, NoHttpRequest, r, p)

\* httpRequest(req): POST with the Body if there is one, else GET; always a Referer
HttpRequestOf(r) ==
    [Method |-> IF Len(r.Body) > 0 THEN "POST" ELSE "GET",
     URL |-> r.URL, Referer |-> r.URL, Body |-> r.Body]

\* Client.fetchHTTP; a Transport whose Dial is nil dials with the net package
FetchHTTP(c, r, p) ==
    LET u == UrlParse(r.URL)
        h == HttpRequestOf(r)
        via == IF c.httpClient.Dial.kind = "nil" THEN "net" ELSE c.httpClient.Dial.kind
    IN IF u.err THEN Failed("http", <<>>, "none", NoHttpRequest, 0, <<"r", "e", "q", "u", "e", "s", "t">>)
       ELSE IF u.Scheme \notin {<<"h", "t", "t", "p">>, <<"h", "t", "t", "p", "s">>} \/ u.Host = EmptyStr
            THEN Failed("http", <<>>, "none", h, 0, <<"d", "o">>)
       ELSE IF p.dial = "fail" THEN Failed("http", <<>>, "none", h, 0, <<"d", "i", "a", "l">>)
       ELSE IF p.write = "fail" THEN Failed("http", <<>>, via, h, 0, <<"d", "o">>)
       ELSE ReadBody("http", <<>>, via, h, r, p)

\* Client.Fetch(req)
FetchOp(c, r, p) ==
    IF FetchPath(r) = "http" THEN FetchHTTP(c, r, p) ELSE FetchWhois(c, r, p)

FetchRequests ==
    [Query : {<<"e", "x", "a", "m", "p", "l", "e", ".", "c", "o", "m">>},
     Host : {EmptyStr, HostVerisign},
     Body : {EmptyStr, <<"e", "x", "a", "m", "p", "l", "e", ".", "c", "o", "m", "\r", "\n">>},
     URL : {EmptyStr, <<"h", "t", "t", "p", ":", "/", "/", "c", "e", "n", "p", "a", "c", ".", "n", "e", "t", ".", "n", "r", "/", "d", "n", "s", "/", "w", "h", "o", "i", "s", ".", "h", "t", "m", "l", "?", "s", "u", "b", "d", "o", "m", "a", "i", "n", "=", "f", "o", "o", "&", "t", "l", "d", "=", "n", "e", "t", ".", "n", "r">>,
            <<":", "/", "/", "w", "h", "o", "i", "s">>}]

IdleFetch ==
    /\ fpc = "idle"
    /\ freq = NewRequest(EmptyStr)
    /\ peer = NoPeer
    /\ fpath = "none"
    /\ dialed = <<>>
    /\ conn = "none"
    /\ hreq = NoHttpRequest
    /\ peerRead = 0
    /\ fres = NoResponse
    /\ ferr = NilError
    /\ foutcome = "none"

NoClientYet ==
    /\ cpc = "none"
    /\ proxyArg = EmptyStr
    /\ client = NoClient

\* a caller constructs a client
NewClientWithProxy ==
    /\ cpc = "none"
    /\ \E t \in Timeouts, proxy \in ProxyInputs :
         /\ proxyArg' = proxy
         /\ client' = NewClientOp(t, proxy)
    /\ cpc' = "ready"
    /\ UNCHANGED <<fpc, freq, peer, fpath, dialed, conn, hreq, peerRead, fres, ferr,
                   foutcome, rvars, tvars>>

\* a caller calls client.Fetch(r)
Fetch ==
    /\ cpc = "ready"
    /\ fpc = "idle"
    /\ \E r \in FetchRequests, p \in Peers :
         LET out == FetchOp(client, r, p)
         IN /\ freq' = r
            /\ peer' = p
            /\ fpath' = out.path
            /\ dialed' = out.dialed
            /\ conn' = out.conn
            /\ hreq' = out.hreq
            /\ peerRead' = out.peerRead
            /\ fres' = out.res
            /\ ferr' = out.err
            /\ foutcome' = out.outcome
    /\ fpc' = "done"
    /\ UNCHANGED <<cpc, proxyArg, client, rvars, tvars>>

----------------------------------------------------------------------------
(* The direct dial strategy and Fetch over it, with time. *)

MaxTimeout == 3
MaxTime == 8

TimedPeers == {"stall", "respond", "refuse"}

DeadlineAfterConnect(start, connected, t) == connected + t

\* DefaultTimeoutDialer.Dial: deadline := time.Now().Add(c.timeout), taken
\* before net.DialTimeout; conn.SetDeadline(deadline) after it
DialDeadline(start, connected, t) == start + t

IdleTimed ==
    /\ now = 0
    /\ tpc = "idle"
    /\ timeout = 0
    /\ tpeer = "stall"
    /\ t0 = 0
    /\ deadline = 0
    /\ connDeadline = -1
    /\ tconn = -1
    /\ tend = 0
    /\ tres = "none"

\* time passes, but not past the moment a blocked call times out
Tick ==
    /\ now < MaxTime
    /\ tpc = "connecting" => now < t0 + timeout
    /\ (tpc \in {"writing", "reading"} /\ connDeadline >= 0) => now < connDeadline
    /\ now' = now + 1
    /\ UNCHANGED <<tpc, timeout, tpeer, t0, deadline, connDeadline, tconn, tend, tres, rvars, fvars>>

\* Fetch calls Dial on a client with the direct dial strategy
StartFetch ==
    /\ tpc = "idle"
    /\ \E t \in 1..MaxTimeout, p \in TimedPeers :
         /\ timeout' = t
         /\ tpeer' = p
    /\ t0' = now
    /\ tpc' = "connecting"
    /\ UNCHANGED <<now, deadline, connDeadline, tconn, tend, tres, rvars, fvars>>

\* net.DialTimeout connects; Dial sets the deadline on the connection
Connected ==
    /\ tpc = "connecting"
    /\ tpeer # "refuse"
    /\ deadline' = DialDeadline(t0, now, timeout)
    /\ connDeadline' = deadline'
    /\ tconn' = now
    /\ tpc' = "writing"
    /\ UNCHANGED <<now, timeout, tpeer, t0, tend, tres, rvars, fvars>>

\* net.DialTimeout fails: refused at once, or timed out after the timeout
DialFails ==
    /\ tpc = "connecting"
    /\ \/ tpeer = "refuse" /\ tres' = "refused"
       \/ now >= t0 + timeout /\ tres' = "timeout"
    /\ tend' = now
    /\ tpc' = "done"
    /\ UNCHANGED <<now, timeout, tpeer, t0, deadline, connDeadline, tconn, rvars, fvars>>

\* conn.Write(req.Body) completes
Written ==
    /\ tpc = "writing"
    /\ connDeadline >= 0 => now < connDeadline
    /\ tpc' = "reading"
    /\ UNCHANGED <<now, timeout, tpeer, t0, deadline, connDeadline, tconn, tend, tres, rvars, fvars>>

\* the peer answers and closes: ReadAll ends with EOF
ReadDone ==
    /\ tpc = "reading"
    /\ tpeer = "respond"
    /\ connDeadline >= 0 => now < connDeadline
    /\ tres' = "response"
    /\ tend' = now
    /\ tpc' = "done"
    /\ UNCHANGED <<now, timeout, tpeer, t0, deadline, connDeadline, tconn, rvars, fvars>>

\* the connection's deadline passes during conn.Write or the read
DeadlineExceeded ==
    /\ tpc \in {"writing", "reading"}
    /\ connDeadline >= 0
    /\ now >= connDeadline
    /\ tres' = "timeout"
    /\ tend' = now
    /\ tpc' = "done"
    /\ UNCHANGED <<now, timeout, tpeer, t0, deadline, connDeadline, tconn, rvars, fvars>>

----------------------------------------------------------------------------
(* Specifications. *)

\* the zone table of the specifications that do not resolve
BaseZones == (<<"c", "o", "m">> :> HostVerisign) @@ (<<"n", "r">> :> HostCenpac)

InitResolve ==
    /\ zones \in ZoneTables
    /\ servers \in Registries
    /\ IdleResolve
    /\ NoClientYet
    /\ IdleFetch
    /\ IdleTimed

NextResolve == Resolve

\* Resolve, over every zone table and registry of the model
Spec == InitResolve /\ [][NextResolve]_vars

InitFetch ==
    /\ zones = BaseZones
    /\ servers = InitServers
    /\ IdleResolve
    /\ NoClientYet
    /\ IdleFetch
    /\ IdleTimed

NextFetch == NewClientWithProxy \/ Fetch

\* client construction and Fetch
SpecFetch == InitFetch /\ [][NextFetch]_vars

NextTimed == Tick \/ StartFetch \/ Connected \/ DialFails \/ Written \/ ReadDone \/ DeadlineExceeded

\* a Fetch through the direct dial strategy, in time
SpecTimed == InitFetch /\ [][NextTimed]_vars

----------------------------------------------------------------------------
(* Properties of Resolve. *)

\* the positions of q at which a label starts
SuffixStarts(q) == {k \in 1..(Len(q) + 1) : k = 1 \/ q[k - 1] = Dot}

SuffixAt(q, k) == SubSeq(q, k, Len(q))

\* the label starts of q whose suffix is a key of the zone table
MatchingStarts(q) == {k \in SuffixStarts(q) : SuffixAt(q, k) \in DOMAIN zones}

MinOf(S) == CHOOSE k \in S : \A j \in S : k <= j

\* C1: Resolve sets Host to the zone table's value for the longest label
\* suffix of the query that is a key of the table (the smallest i), so "a.b.c"
\* with "b.c" and "c" registered resolves by "b.c".
C1_MostSpecificSuffix ==
    rpc = "done" =>
        LET M == MatchingStarts(req.Query)
        IN M # {} => req.Host = zones[SuffixAt(req.Query, MinOf(M))]

C1_Witness ==
    /\ rpc = "done"
    /\ req.Query = <<"a", ".", "b", ".", "c">>
    /\ <<"b", ".", "c">> \in DOMAIN zones
    /\ <<"c">> \in DOMAIN zones
    /\ zones[<<"b", ".", "c">>] # zones[<<"c">>]
    /\ req.Host = zones[<<"b", ".", "c">>]

\* C2: when no label suffix of the query is a key of the zone table, Resolve
\* returns a non-nil error and the Request as constructed: Host, Body and URL
\* empty, no resolver invoked.
C2_NoMatchFails ==
    (rpc = "done" /\ MatchingStarts(req.Query) = {}) =>
        /\ outcome = "returned"
        /\ ~err.nil
        /\ used = "none"
        /\ req = NewRequest(req.Query)

C2_Witness ==
    /\ rpc = "done"
    /\ req.Query = <<"x", ".", "n", "o", "n", "e", "x", "i", "s", "t", "e", "n", "t">>
    /\ outcome = "returned"
    /\ ~err.nil
    /\ req.Host = EmptyStr

\* C3: when the matched Host has no entry in the service registry, Resolve
\* uses the default resolver: it returns no error and a Request with that
\* Host, an empty URL and the query followed by CRLF as Body.
C3_DefaultResolver ==
    (rpc = "done" /\ MatchingStarts(req.Query) # {} /\ req.Host \notin DOMAIN servers) =>
        /\ outcome = "returned"
        /\ err.nil
        /\ used = "Default"
        /\ req.URL = EmptyStr
        /\ req.Body = req.Query \o CRLF
        /\ (req.Query = <<"e", "x", "a", "m", "p", "l", "e", ".", "c", "o", "m">> =>
                /\ req.Host = <<"w", "h", "o", "i", "s", ".", "v", "e", "r", "i", "s", "i", "g", "n", "-", "g", "r", "s", ".", "c", "o", "m">>
                /\ req.Body = <<"e", "x", "a", "m", "p", "l", "e", ".", "c", "o", "m", "\r", "\n">>)

C3_Witness ==
    /\ rpc = "done"
    /\ req = [Query |-> <<"e", "x", "a", "m", "p", "l", "e", ".", "c", "o", "m">>, Host |-> HostVerisign,
              Body |-> <<"e", "x", "a", "m", "p", "l", "e", ".", "c", "o", "m", "\r", "\n">>, URL |-> EmptyStr]
    /\ used = "Default"

\* C4 as stated: resolving "foo.net.nr" through the Cenpac resolver gives an
\* empty Body and the URL ...whois.html?subdomain=foo&tld=nr.
C4_Original ==
    (rpc = "done" /\ req.Query = <<"f", "o", "o", ".", "n", "e", "t", ".", "n", "r">> /\ req.Host = HostCenpac) =>
        /\ outcome = "returned"
        /\ req.Body = EmptyStr
        /\ req.URL = <<"h", "t", "t", "p", ":", "/", "/", "c", "e", "n", "p", "a", "c", ".", "n", "e", "t", ".", "n", "r", "/", "d", "n", "s", "/", "w", "h", "o", "i", "s", ".", "h", "t", "m", "l", "?", "s", "u", "b", "d", "o", "m", "a", "i", "n", "=", "f", "o", "o", "&", "t", "l", "d", "=", "n", "r">>

\* C4 as amended: resolving "foo.net.nr" through the Cenpac resolver always
\* gives an empty Body and the URL ...whois.html?subdomain=foo&tld=net.nr: the
\* tld parameter is everything after the query's first dot.
C4_CenpacURL ==
    (rpc = "done" /\ req.Query = <<"f", "o", "o", ".", "n", "e", "t", ".", "n", "r">> /\ req.Host = HostCenpac) =>
        /\ outcome = "returned"
        /\ used = "Cenpac"
        /\ req.Body = EmptyStr
        /\ req.URL = <<"h", "t", "t", "p", ":", "/", "/", "c", "e", "n", "p", "a", "c", ".", "n", "e", "t", ".", "n", "r", "/", "d", "n", "s", "/", "w", "h", "o", "i", "s", ".", "h", "t", "m", "l", "?", "s", "u", "b", "d", "o", "m", "a", "i", "n", "=", "f", "o", "o", "&", "t", "l", "d", "=", "n", "e", "t", ".", "n", "r">>

C4_Witness ==
    /\ rpc = "done"
    /\ req.Query = <<"f", "o", "o", ".", "n", "e", "t", ".", "n", "r">>
    /\ req.Host = HostCenpac
    /\ used = "Cenpac"
    /\ req.URL = <<"h", "t", "t", "p", ":", "/", "/", "c", "e", "n", "p", "a", "c", ".", "n", "e", "t", ".", "n", "r", "/", "d", "n", "s", "/", "w", "h", "o", "i", "s", ".", "h", "t", "m", "l", "?", "s", "u", "b", "d", "o", "m", "a", "i", "n", "=", "f", "o", "o", "&", "t", "l", "d", "=", "n", "e", "t", ".", "n", "r">>

\* C9: every failure during Resolve reaches the caller: when the invoked
\* resolver returns an error, Resolve returns an error.
C9_ResolverErrorSurfaces ==
    (rpc = "done" /\ outcome = "returned" /\ ~srvErr.nil) => ~err.nil

\* C10: Resolve returns normally for every query; the Cenpac resolver never
\* indexes a label that does not exist.
C10_ResolveReturns ==
    rpc = "done" => outcome = "returned"

----------------------------------------------------------------------------
(* Properties of Fetch. *)

\* C5: Fetch chooses the transport from Request.URL alone: HTTP if and only
\* if the URL is non-empty, otherwise one raw dial of tcp Host:43; every call
\* takes exactly one of the two paths, whatever Host and Body are.
C5_TransportByURL ==
    fpc = "done" =>
        /\ fpath \in {"http", "whois"}
        /\ fpath = "http" <=> freq.URL # EmptyStr
        /\ fpath = "whois" =>
              /\ dialed = <<[network |-> "tcp", address |-> freq.Host \o <<":", "4", "3">>]>>
              /\ hreq = NoHttpRequest
        /\ fpath = "http" => dialed = <<>>

C5_Witness ==
    /\ fpc = "done"
    /\ freq.URL # EmptyStr
    /\ freq.Host # EmptyStr
    /\ freq.Body # EmptyStr
    /\ fpath = "http"
    /\ hreq.Method = "POST"
    /\ ferr.nil

\* the bytes of the peer's stream up to the read limit
CappedLen(s) ==
    IF s.end = "more" \/ s.len > DefaultReadLimit THEN DefaultReadLimit ELSE s.len

\* C6: on both paths Fetch reads at most DefaultReadLimit bytes of the peer's
\* stream, and the Body of a returned Response is the stream's first
\* min(DefaultReadLimit, length) bytes, also for a stream that never ends.
C6_ReadCap ==
    fpc = "done" =>
        /\ peerRead <= DefaultReadLimit
        /\ (foutcome = "returned" /\ ferr.nil) =>
              /\ fres.Body = CappedLen(peer.stream)
              /\ fres.Body <= DefaultReadLimit

C6_Witness ==
    /\ fpc = "done"
    /\ fpath = "whois"
    /\ peer.stream.end = "more"
    /\ peer.size = 3 * (DefaultReadLimit \div 4)
    /\ foutcome = "returned"
    /\ ferr.nil
    /\ fres.Body = DefaultReadLimit

\* C8: a client constructed with a non-empty proxy string that does not parse
\* behaves in every Fetch as a client constructed with no proxy: it dials
\* directly and does not crash.
C8_MalformedProxyIsDirect ==
    (fpc = "done" /\ proxyArg # EmptyStr /\ UrlParse(proxyArg).err) =>
        LET direct == FetchOp(NewClientOp(client.httpClient.TLSHandshakeTimeout, EmptyStr),
                              freq, peer)
        IN /\ foutcome = "returned"
           /\ conn = direct.conn
           /\ fres = direct.res
           /\ ferr = direct.err

----------------------------------------------------------------------------
(* Properties of the dial strategy. *)

\* C7: with the direct dial strategy and timeout T, a Fetch started at t0
\* against a peer that accepts the connection and never responds is never
\* still running after t0 + T and returns a timeout error by then: the
\* connection's deadline is t0 + T, whenever the connection was established.
C7_TotalTimeBounded ==
    (tpeer = "stall" /\ tpc # "idle") =>
        /\ tpc # "done" => now <= t0 + timeout
        /\ connDeadline >= 0 => connDeadline = t0 + timeout
        /\ tpc = "done" => (tres = "timeout" /\ tend <= t0 + timeout)

C7_Witness ==
    /\ tpc = "done"
    /\ tpeer = "stall"
    /\ tconn > t0
    /\ tres = "timeout"
    /\ tend = t0 + timeout
    /\ tend - tconn < timeout
====
